---- MODULE Spec2Model ----
(***************************************************************************)
(* Authentication and token lifecycle of the bird-registry API:            *)
(* password hashing, JWT issuance and verification (app/core/security.py), *)
(* the Redis revocation store (app/core/redis_client.py), the request      *)
(* dependency get_current_user (app/dependencies.py) and the handlers      *)
(* login / refresh / logout (app/routers/auth.py), register                *)
(* (app/routers/users.py) and the admin cache flush (app/internal/admin.py)*)
(*                                                                         *)
(* Time is counted in ticks of 1/TicksPerSecond second.  An Optional value *)
(* of the source is a set with at most one element: None is {}.            *)
(***************************************************************************)
EXTENDS Integers, Sequences, FiniteSets, TLC

VARIABLES
    now,        \* wall clock, in ticks
    users,      \* rows of the users table
    nextId,     \* next primary key of the users table
    issued,     \* every token minted so far (validly signed strings)
    nextJti,    \* source of fresh uuid4 values
    instance,   \* RedisClient._instance
    isCluster,  \* RedisClient._is_cluster
    store,      \* contents of the Redis server: key -> [value, expireAt]
    storeUp,    \* whether the Redis server answers
    logoutSeen, \* jti of every access token POST /auth/logout was called with
                \* before its exp while the Redis server answered
    resp,       \* the request just handled and its response
    pc,         \* for every thread inside get_client, the line it is at
    created     \* number of client objects constructed so far

vars == <<now, users, nextId, issued, nextJti, instance, isCluster, store, storeUp, logoutSeen,
          resp, pc, created>>

(***************************************************************************)
(* Bounds of the model                                                     *)
(***************************************************************************)
TicksPerSecond == 2
MaxUsers == 2
MaxLogins == 1
EarlyTicks == 1
MaxThreads == 2
MaxSessions == 2

None == {}
Some(x) == {x}
The(s) == CHOOSE x \in s : TRUE

Min(a, b) == IF a < b THEN a ELSE b

(***************************************************************************)
(* app/core/config.py: the fields the Settings class declares              *)
(***************************************************************************)
ACCESS_TOKEN_EXPIRES_MINUTES == 30
REFRESH_TOKEN_EXPIRES_MINUTES == 24 * 60
REMEMBER_ME_REFRESH_TOKEN_EXPIRES_MINUTES == 30 * 24 * 60
ACCESS_COOKIE_MAX_AGE == 15 * 60
REFRESH_COOKIE_MAX_AGE == 7 * 24 * 60 * 60

Settings ==
    [ ALGORITHM |-> "HS256",
      ACCESS_TOKEN_EXPIRES_MINUTES |-> ACCESS_TOKEN_EXPIRES_MINUTES,
      REFRESH_TOKEN_EXPIRES_MINUTES |-> REFRESH_TOKEN_EXPIRES_MINUTES,
      REMEMBER_ME_REFRESH_TOKEN_EXPIRES_MINUTES |-> REMEMBER_ME_REFRESH_TOKEN_EXPIRES_MINUTES,
      REFRESH_TOKEN_ROTATION |-> TRUE,
      SECURE_COOKIE |-> FALSE,
      COOKIE_DOMAIN |-> "None",
      ACCESS_COOKIE_MAX_AGE |-> ACCESS_COOKIE_MAX_AGE,
      REFRESH_COOKIE_MAX_AGE |-> REFRESH_COOKIE_MAX_AGE,
      COOKIE_SAMESITE |-> "lax",
      REDIS_HOST |-> "localhost",
      REDIS_PORT |-> 6379,
      REDIS_PASSWORD |-> "Pass123",
      REDIS_DB |-> 0 ]

\* settings.<name> raises AttributeError when Settings declares no such field
HasSetting(name) == name \in DOMAIN Settings

(***************************************************************************)
(* app/core/security.py: password hasher                                   *)
(***************************************************************************)
BCRYPT_MAX_PASSWORD_LENGTH == 72

\* A str is a sequence of code points. The UTF-8 bytes of one code point:
utf8_char(c) ==
    IF c < 128 THEN <<c>>
    ELSE IF c < 2048 THEN <<192 + (c \div 64), 128 + (c % 64)>>
    ELSE IF c < 65536
    THEN <<224 + (c \div 4096), 128 + ((c \div 64) % 64), 128 + (c % 64)>>
    ELSE <<240 + (c \div 262144), 128 + ((c \div 4096) % 64),
           128 + ((c \div 64) % 64), 128 + (c % 64)>>

\* str.encode('utf-8')
RECURSIVE encode_utf8(_)
encode_utf8(s) ==
    IF s = <<>> THEN <<>> ELSE utf8_char(Head(s)) \o encode_utf8(Tail(s))

\* the number of bytes the lead byte b announces; 0 when b cannot lead
utf8_length(b) ==
    IF b < 128 THEN 1
    ELSE IF b >= 192 /\ b < 224 THEN 2
    ELSE IF b >= 224 /\ b < 240 THEN 3
    ELSE IF b >= 240 /\ b < 248 THEN 4
    ELSE 0

\* the code point of a complete sequence of n bytes
utf8_value(b, n) ==
    IF n = 1 THEN b[1]
    ELSE IF n = 2 THEN (b[1] - 192) * 64 + (b[2] - 128)
    ELSE IF n = 3 THEN (b[1] - 224) * 4096 + (b[2] - 128) * 64 + (b[3] - 128)
    ELSE (b[1] - 240) * 262144 + (b[2] - 128) * 4096 + (b[3] - 128) * 64 + (b[4] - 128)

\* bytes.decode('utf-8', errors='ignore'): bytes that form no complete
\* sequence are dropped
RECURSIVE decode_utf8_ignore(_)
decode_utf8_ignore(b) ==
    IF b = <<>> THEN <<>>
    ELSE LET n == utf8_length(Head(b)) IN
         IF /\ n > 0
            /\ Len(b) >= n
            /\ \A i \in 2..n : b[i] >= 128 /\ b[i] < 192
         THEN <<utf8_value(b, n)>> \o decode_utf8_ignore(SubSeq(b, n + 1, Len(b)))
         ELSE decode_utf8_ignore(Tail(b))

\* password.encode('utf-8')[:BCRYPT_MAX_PASSWORD_LENGTH]
password_bytes(password) ==
    LET b == encode_utf8(password) IN
    SubSeq(b, 1, Min(Len(b), BCRYPT_MAX_PASSWORD_LENGTH))

\* password.encode('utf-8')[:72].decode('utf-8', errors='ignore')
Truncate(password) == decode_utf8_ignore(password_bytes(password))

\* pwd_context.hash: a salted one-way digest of the secret, in a string that
\* names its scheme
pwd_context_hash(secret) == [scheme |-> "bcrypt", digest |-> secret]

\* pwd_context.verify: raises UnknownHashError for a string that is the hash
\* of no scheme of the context
pwd_context_verify(secret, hash) ==
    IF hash.scheme # "bcrypt"
    THEN [exc |-> "UnknownHashError", ret |-> FALSE]
    ELSE [exc |-> "none", ret |-> secret = hash.digest]

hash_password(password) == pwd_context_hash(Truncate(password))

\* exc is the exception the call ends in, "none" when it returns ret
verify_password(plain_password, hashed_password) ==
    pwd_context_verify(Truncate(plain_password), hashed_password)

(***************************************************************************)
(* app/core/security.py: token codec                                       *)
(***************************************************************************)
NowSec == now \div TicksPerSecond

\* a generator that returns the same value at every call
uuid4_Constant(n) == "j" \o ToString(0)

\* str(uuid.uuid4()): a value no earlier call returned
uuid4(n) == "j" \o ToString(n)

\* `if expires_delta:` — None and timedelta(0) are both false
Truthy(expires_delta) == expires_delta # None /\ The(expires_delta) # 0

\* the exp claim jwt.encode writes for datetime.now(timezone.utc) + delta,
\* delta in ticks: the whole seconds of that instant
ExpAfter(delta) == (now + delta) \div TicksPerSecond

create_access_token_Exp(expires_delta) ==
    IF Truthy(expires_delta)
    THEN ExpAfter(The(expires_delta))
    ELSE ExpAfter(ACCESS_TOKEN_EXPIRES_MINUTES * 60 * TicksPerSecond)

create_access_token(data, expires_delta, n) ==
    [ sig |-> "ok", jti |-> uuid4(n), type |-> "access",
      sub |-> data.sub, user_id |-> data.user_id,
      has_remember_me |-> FALSE, remember_me |-> FALSE,
      exp |-> create_access_token_Exp(expires_delta) ]

create_refresh_token_Exp(expires_delta, remember_me) ==
    IF Truthy(expires_delta)
    THEN ExpAfter(The(expires_delta))
    ELSE IF remember_me
    THEN ExpAfter(REMEMBER_ME_REFRESH_TOKEN_EXPIRES_MINUTES * 60 * TicksPerSecond)
    ELSE ExpAfter(REFRESH_TOKEN_EXPIRES_MINUTES * 60 * TicksPerSecond)

create_refresh_token(data, expires_delta, remember_me, n) ==
    [ sig |-> "ok", jti |-> uuid4(n), type |-> "refresh",
      sub |-> data.sub, user_id |-> data.user_id,
      has_remember_me |-> TRUE, remember_me |-> remember_me,
      exp |-> create_refresh_token_Exp(expires_delta, remember_me) ]

\* jwt.decode: signature, structure and (unless verify_exp is off) exp;
\* the library rejects a token once exp < int(now)
jwt_decode(token, verify_exp) ==
    IF token.sig # "ok" THEN None
    ELSE IF verify_exp /\ token.exp < NowSec THEN None
    ELSE Some(token)

(***************************************************************************)
(* app/core/redis_client.py.  rc is the client side and the server side of *)
(* Redis as one record [instance, isCluster, store]; every operation       *)
(* returns its result together with the rc it leaves behind.               *)
(***************************************************************************)
\* A key string is the pair <<prefix, rest>> of the string prefix \o rest, where
\* prefix is "revoked_token:" exactly when the string starts with it.
RevokedKey(jti) == <<"revoked_token:", jti>>

\* client.scan(cursor, match="revoked_token:*")
MatchesRevokedPattern(key) == key[1] = "revoked_token:"

\* the keys of the server that have not expired
Live(st) == [k \in {x \in DOMAIN st : st[x].expireAt > now} |-> st[k]]

\* get_client reading a flag that is declared and off: the standalone client
\* is created at the first call
get_client_FlagDeclared(rc) ==
    IF rc.instance # None
    THEN [exc |-> "none", rc |-> rc]
    ELSE [exc |-> "none", rc |-> [rc EXCEPT !.instance = Some("Redis")]]

\* the try block with the flag declared and off: the standalone client is created
get_client_try_FlagDeclared(rc) ==
    [exc |-> "none", rc |-> [rc EXCEPT !.instance = Some("Redis")]]

\* lines 28-63 of get_client: the try block entered when _instance was None
get_client_try(rc) ==
    IF ~HasSetting("REDIS_CLUSTER_ENABLED")
    THEN [exc |-> "AttributeError", rc |-> rc]
    ELSE IF Settings.REDIS_CLUSTER_ENABLED
    THEN IF storeUp
         THEN [exc |-> "none", rc |-> [rc EXCEPT !.instance = Some("RedisCluster"), !.isCluster = TRUE]]
         ELSE [exc |-> "none", rc |-> [rc EXCEPT !.instance = Some("Redis")]]
    ELSE [exc |-> "none", rc |-> [rc EXCEPT !.instance = Some("Redis")]]

get_client(rc) ==
    IF rc.instance # None
    THEN [exc |-> "none", rc |-> rc]
    ELSE get_client_try(rc)

\* client.setex(key, seconds, value) on the server
setex(rc, key, seconds, value) ==
    [rc EXCEPT !.store = [k \in DOMAIN Live(rc.store) \cup {key} |->
        IF k = key THEN [value |-> value, expireAt |-> now + seconds * TicksPerSecond]
        ELSE rc.store[k]]]

\* client.delete(key) on the server
delete(rc, key) ==
    [rc EXCEPT !.store = [k \in DOMAIN Live(rc.store) \ {key} |-> rc.store[k]]]

RedisClient_revoke_token(rc, jti, expiration_seconds) ==
    LET g == get_client(rc) IN
    IF g.exc # "none" \/ ~storeUp \/ expiration_seconds <= 0
    THEN [ret |-> FALSE, rc |-> g.rc]
    ELSE [ret |-> TRUE, rc |-> setex(g.rc, RevokedKey(jti), expiration_seconds, "1")]

\* is_token_revoked answering False when the client or the query raises
is_token_revoked_FailOpen(rc, jti) ==
    LET g == get_client(rc) IN
    IF g.exc # "none" \/ ~storeUp
    THEN [ret |-> FALSE, rc |-> g.rc]
    ELSE [ret |-> RevokedKey(jti) \in DOMAIN Live(g.rc.store), rc |-> g.rc]

is_token_revoked(rc, jti) ==
    LET g == get_client(rc) IN
    [ret |-> IF g.exc # "none" \/ ~storeUp THEN TRUE
             ELSE RevokedKey(jti) \in DOMAIN Live(g.rc.store),
     rc |-> g.rc]

cache_get(rc, key) ==
    LET g == get_client(rc) IN
    IF g.exc # "none" \/ ~storeUp
    THEN [ret |-> None, rc |-> g.rc]
    ELSE [ret |-> IF key \in DOMAIN Live(g.rc.store) THEN Some(g.rc.store[key].value) ELSE None,
          rc |-> g.rc]

cache_set(rc, key, value, expiration_seconds) ==
    LET g == get_client(rc) IN
    IF g.exc # "none" \/ ~storeUp \/ expiration_seconds <= 0
    THEN [ret |-> FALSE, rc |-> g.rc]
    ELSE [ret |-> TRUE, rc |-> setex(g.rc, key, expiration_seconds, value)]

cache_delete(rc, key) ==
    LET g == get_client(rc) IN
    IF g.exc # "none" \/ ~storeUp
    THEN [ret |-> FALSE, rc |-> g.rc]
    ELSE [ret |-> TRUE, rc |-> delete(g.rc, key)]

health_check(rc) ==
    LET g == get_client(rc) IN
    [ret |-> g.exc = "none" /\ storeUp, rc |-> g.rc]

(***************************************************************************)
(* app/core/security.py: verification and revocation                       *)
(***************************************************************************)
\* decode_token without the revocation lookup
decode_token_NoRevocationCheck(rc, token) ==
    [ret |-> jwt_decode(token, TRUE), rc |-> rc]

\* lines 79-83 of decode_token, once jwt.decode has returned payload
decode_token_payload(rc, payload) ==
    LET r == is_token_revoked(rc, The(payload).jti) IN
    [ret |-> IF r.ret THEN None ELSE payload, rc |-> r.rc]

decode_token(rc, token) ==
    IF jwt_decode(token, TRUE) = None
    THEN [ret |-> None, rc |-> rc]
    ELSE decode_token_payload(rc, jwt_decode(token, TRUE))

\* int(x) of Python for x = num / den: truncation toward zero
IntTrunc(num, den) == IF num >= 0 THEN num \div den ELSE -((-num) \div den)

\* the remaining validity rounded up instead of truncated
ExpirationSeconds_RoundUp(exp) ==
    IntTrunc(exp * TicksPerSecond - now + TicksPerSecond - 1, TicksPerSecond)

\* int(exp - datetime.now(timezone.utc).timestamp())
ExpirationSeconds(exp) == IntTrunc(exp * TicksPerSecond - now, TicksPerSecond)

\* revoke_token without the test `expiration_seconds > 0`
revoke_token_NoExpiryCheck(rc, token) ==
    LET payload == jwt_decode(token, FALSE) IN
    IF payload = None
    THEN [ret |-> FALSE, rc |-> rc, ttl |-> None]
    ELSE LET r == RedisClient_revoke_token(rc, The(payload).jti,
                                           ExpirationSeconds(The(payload).exp)) IN
         [ret |-> r.ret, rc |-> r.rc, ttl |-> Some(ExpirationSeconds(The(payload).exp))]

\* revoke_token reading the claims without verifying the signature
revoke_token_NoSignatureCheck(rc, token) ==
    IF token.sig = "malformed"
    THEN [ret |-> FALSE, rc |-> rc, ttl |-> None]
    ELSE LET exp == token.exp
             expiration_seconds == ExpirationSeconds(exp) IN
         IF exp # 0 /\ expiration_seconds > 0
         THEN LET r == RedisClient_revoke_token(rc, token.jti, expiration_seconds) IN
              [ret |-> r.ret, rc |-> r.rc, ttl |-> Some(expiration_seconds)]
         ELSE [ret |-> FALSE, rc |-> rc, ttl |-> None]

\* ttl: the expiration_seconds handed to RedisClient.revoke_token, if it was called
revoke_token(rc, token) ==
    LET payload == jwt_decode(token, FALSE) IN
    IF payload = None
    THEN [ret |-> FALSE, rc |-> rc, ttl |-> None]
    ELSE LET exp == The(payload).exp
             expiration_seconds == ExpirationSeconds(exp) IN
         IF exp # 0 /\ expiration_seconds > 0
         THEN LET r == RedisClient_revoke_token(rc, The(payload).jti, expiration_seconds) IN
              [ret |-> r.ret, rc |-> r.rc, ttl |-> Some(expiration_seconds)]
         ELSE [ret |-> FALSE, rc |-> rc, ttl |-> None]

(***************************************************************************)
(* app/crud/user_crud.py and app/crud/role_crud.py                         *)
(***************************************************************************)
get_user_by_email(email) == {u \in users : u.email = email}

get_user_by_username(username) == {u \in users : u.username = username}

get_user_by_id(user_id) == {u \in users : u.id = user_id}

\* rows of the user_role table joined with role: seeded, user 1 is the administrator
user_role == {[user_id |-> 1, role_name |-> "admin"]}

user_has_role(user_id, role_name) ==
    [user_id |-> user_id, role_name |-> role_name] \in user_role

(***************************************************************************)
(* app/dependencies.py                                                     *)
(***************************************************************************)
\* the tokens minted by create_* always carry sub and user_id, so the
\* "Invalid token payload" branch is not taken by any signed token
\* get_current_user answering a rejected token without the WWW-Authenticate header
get_current_user_decoded_NoHeader(d) ==
    IF d.ret = None \/ The(d.ret).type # "access"
    THEN [status |-> 401, detail |-> "Invalid or expired token",
          wwwauth |-> FALSE, data |-> None, rc |-> d.rc]
    ELSE [status |-> 200, detail |-> "",
          wwwauth |-> FALSE,
          data |-> Some([user_id |-> The(d.ret).user_id, sub |-> The(d.ret).sub]),
          rc |-> d.rc]

\* lines 20-47 of get_current_user, d being what decode_token returned
get_current_user_decoded(d) ==
    IF d.ret = None
    THEN [status |-> 401, detail |-> "Invalid or expired token",
          wwwauth |-> TRUE, data |-> None, rc |-> d.rc]
    ELSE IF The(d.ret).type # "access"
    THEN [status |-> 401, detail |-> "Invalid token type",
          wwwauth |-> FALSE, data |-> None, rc |-> d.rc]
    ELSE [status |-> 200, detail |-> "",
          wwwauth |-> FALSE,
          data |-> Some([user_id |-> The(d.ret).user_id, sub |-> The(d.ret).sub]),
          rc |-> d.rc]

get_current_user(rc, cookie) ==
    IF cookie = None
    THEN [status |-> 401, detail |-> "Not authenticated - missing access token",
          wwwauth |-> TRUE, data |-> None, rc |-> rc]
    ELSE get_current_user_decoded(decode_token(rc, The(cookie)))

(***************************************************************************)
(* app/routers/auth.py                                                     *)
(***************************************************************************)
SetCookie(key, value, max_age) == [key |-> key, value |-> Some(value), max_age |-> max_age]

DeleteCookie(key) == [key |-> key, value |-> None, max_age |-> 0]

set_auth_cookies(access_token, refresh_token, refresh_cookie_max_age) ==
    { SetCookie("access_token", access_token, ACCESS_COOKIE_MAX_AGE),
      SetCookie("refresh_token", refresh_token,
                IF refresh_cookie_max_age = None THEN REFRESH_COOKIE_MAX_AGE
                ELSE The(refresh_cookie_max_age)) }

\* the refresh cookie max-age login and refresh_token choose
RefreshCookieMaxAge(remember_me) ==
    IF remember_me THEN Some(REMEMBER_ME_REFRESH_TOKEN_EXPIRES_MINUTES * 60) ELSE None

\* the lookup trying the username before the email
login_lookup_UsernameFirst(username_or_email) ==
    LET user == get_user_by_username(username_or_email) IN
    IF user = None THEN get_user_by_email(username_or_email) ELSE user

\* lines 62-65 of login: email first, username only when no row has that email
login_lookup(username_or_email) ==
    LET user == get_user_by_email(username_or_email) IN
    IF user = None THEN get_user_by_username(username_or_email) ELSE user

\* login telling an unknown identifier apart from a wrong password
login_DistinctErrors(credentials, n) ==
    LET user == login_lookup(credentials.username_or_email) IN
    IF user = None
    THEN [status |-> 404, detail |-> "User not found",
          wwwauth |-> FALSE, cookies |-> {}, minted |-> <<>>, body |-> None]
    ELSE IF ~verify_password(credentials.password, The(user).hashed_password).ret
    THEN [status |-> 401, detail |-> "Incorrect password",
          wwwauth |-> FALSE, cookies |-> {}, minted |-> <<>>, body |-> None]
    ELSE IF The(user).disabled
    THEN [status |-> 403, detail |-> "User is disabled",
          wwwauth |-> FALSE, cookies |-> {}, minted |-> <<>>, body |-> None]
    ELSE LET data == [sub |-> The(user).email, user_id |-> The(user).id]
             access_token == create_access_token(data, None, n)
             refresh_token == create_refresh_token(data, None, credentials.remember_me, n + 1) IN
         [status |-> 200, detail |-> "Login successful", wwwauth |-> FALSE,
          cookies |-> set_auth_cookies(access_token, refresh_token,
                                       RefreshCookieMaxAge(credentials.remember_me)),
          minted |-> <<access_token, refresh_token>>,
          body |-> Some([user_id |-> The(user).id, email |-> The(user).email])]

\* login testing the disabled flag before the password
login_DisabledFirst(credentials, n) ==
    LET user == login_lookup(credentials.username_or_email) IN
    IF user = None
    THEN [status |-> 401, detail |-> "Incorrect email/username or password",
          wwwauth |-> FALSE, cookies |-> {}, minted |-> <<>>, body |-> None]
    ELSE IF The(user).disabled
    THEN [status |-> 403, detail |-> "User is disabled",
          wwwauth |-> FALSE, cookies |-> {}, minted |-> <<>>, body |-> None]
    ELSE IF ~verify_password(credentials.password, The(user).hashed_password).ret
    THEN [status |-> 401, detail |-> "Incorrect email/username or password",
          wwwauth |-> FALSE, cookies |-> {}, minted |-> <<>>, body |-> None]
    ELSE LET data == [sub |-> The(user).email, user_id |-> The(user).id]
             access_token == create_access_token(data, None, n)
             refresh_token == create_refresh_token(data, None, credentials.remember_me, n + 1) IN
         [status |-> 200, detail |-> "Login successful", wwwauth |-> FALSE,
          cookies |-> set_auth_cookies(access_token, refresh_token,
                                       RefreshCookieMaxAge(credentials.remember_me)),
          minted |-> <<access_token, refresh_token>>,
          body |-> Some([user_id |-> The(user).id, email |-> The(user).email])]

\* login without the check of the disabled flag
login_NoDisabledCheck(credentials, n) ==
    LET user == login_lookup(credentials.username_or_email) IN
    IF user = None \/ ~verify_password(credentials.password, The(user).hashed_password).ret
    THEN [status |-> 401, detail |-> "Incorrect email/username or password",
          wwwauth |-> FALSE, cookies |-> {}, minted |-> <<>>, body |-> None]
    ELSE LET data == [sub |-> The(user).email, user_id |-> The(user).id]
             access_token == create_access_token(data, None, n)
             refresh_token == create_refresh_token(data, None, credentials.remember_me, n + 1) IN
         [status |-> 200, detail |-> "Login successful", wwwauth |-> FALSE,
          cookies |-> set_auth_cookies(access_token, refresh_token,
                                       RefreshCookieMaxAge(credentials.remember_me)),
          minted |-> <<access_token, refresh_token>>,
          body |-> Some([user_id |-> The(user).id, email |-> The(user).email])]

\* the response of POST /auth/login; minted lists the tokens it created
login(credentials, n) ==
    LET user == login_lookup(credentials.username_or_email) IN
    IF /\ user # None
       /\ verify_password(credentials.password, The(user).hashed_password).exc # "none"
    THEN \* the exception leaves the handler: the server answers 500
         [status |-> 500, detail |-> "Internal Server Error",
          wwwauth |-> FALSE, cookies |-> {}, minted |-> <<>>, body |-> None]
    ELSE IF user = None \/ ~verify_password(credentials.password, The(user).hashed_password).ret
    THEN [status |-> 401, detail |-> "Incorrect email/username or password",
          wwwauth |-> FALSE, cookies |-> {}, minted |-> <<>>, body |-> None]
    ELSE IF The(user).disabled
    THEN [status |-> 403, detail |-> "User is disabled",
          wwwauth |-> FALSE, cookies |-> {}, minted |-> <<>>, body |-> None]
    ELSE LET data == [sub |-> The(user).email, user_id |-> The(user).id]
             access_token == create_access_token(data, None, n)
             refresh_token == create_refresh_token(data, None, credentials.remember_me, n + 1) IN
         [status |-> 200, detail |-> "Login successful", wwwauth |-> FALSE,
          cookies |-> set_auth_cookies(access_token, refresh_token,
                                       RefreshCookieMaxAge(credentials.remember_me)),
          minted |-> <<access_token, refresh_token>>,
          body |-> Some([user_id |-> The(user).id, email |-> The(user).email])]

\* refresh_token creating the new tokens before it validates the cookie
refresh_token_MintFirst(rc, cookie, n) ==
    LET d == IF cookie = None THEN [ret |-> None, rc |-> rc] ELSE decode_token(rc, The(cookie))
        data == [sub |-> "", user_id |-> 0]
        new_access_token == create_access_token(data, None, n)
        new_refresh_token == create_refresh_token(data, None, FALSE, n + 1) IN
    [status |-> 401, detail |-> "Invalid or expired refresh token",
     wwwauth |-> FALSE, cookies |-> {}, minted |-> <<new_access_token, new_refresh_token>>,
     body |-> None, rc |-> d.rc]

\* lines 119-163 of refresh_token, d being what decode_token returned
refresh_token_decoded(d, n) ==
    IF d.ret = None \/ The(d.ret).type # "refresh"
    THEN [status |-> 401, detail |-> "Invalid or expired refresh token",
          wwwauth |-> FALSE, cookies |-> {}, minted |-> <<>>, body |-> None, rc |-> d.rc]
    ELSE LET payload == The(d.ret)
             remember_me == payload.has_remember_me /\ payload.remember_me
             data == [sub |-> payload.sub, user_id |-> payload.user_id]
             new_access_token == create_access_token(data, None, n)
             new_refresh_token == create_refresh_token(data, None, remember_me, n + 1) IN
         [status |-> 200, detail |-> "Token refreshed successfully", wwwauth |-> FALSE,
          cookies |-> set_auth_cookies(new_access_token, new_refresh_token,
                                       RefreshCookieMaxAge(remember_me)),
          minted |-> <<new_access_token, new_refresh_token>>,
          body |-> Some([user_id |-> payload.user_id, email |-> payload.sub]),
          rc |-> d.rc]

\* the response of POST /auth/refresh
refresh_token(rc, cookie, n) ==
    IF cookie = None
    THEN [status |-> 401, detail |-> "Missing refresh token - not authenticated",
          wwwauth |-> FALSE, cookies |-> {}, minted |-> <<>>, body |-> None, rc |-> rc]
    ELSE refresh_token_decoded(decode_token(rc, The(cookie)), n)

\* the response of POST /auth/logout: the dependency get_current_user runs
\* before the body; revoked is the result of revoke_token when the body ran
logout_Depends(current_user, cookie) ==
    IF current_user.status # 200
    THEN [status |-> current_user.status, detail |-> current_user.detail,
          wwwauth |-> current_user.wwwauth, cookies |-> {}, revoked |-> None,
          ttl |-> None, rc |-> current_user.rc]
    ELSE LET r == revoke_token(current_user.rc, The(cookie)) IN
         [status |-> 200, detail |-> "Successfully logged out", wwwauth |-> FALSE,
          cookies |-> {DeleteCookie("access_token"), DeleteCookie("refresh_token")},
          revoked |-> Some(r.ret), ttl |-> r.ttl, rc |-> r.rc]

\* logout writing a revocation entry for every token in circulation
logout_RevokesEveryToken(rc, cookie) ==
    LET r == logout_Depends(get_current_user(rc, cookie), cookie) IN
    [r EXCEPT !.rc.store =
        [k \in DOMAIN r.rc.store \cup {RevokedKey(t.jti) : t \in issued} |->
            IF k \in DOMAIN r.rc.store THEN r.rc.store[k]
            ELSE [value |-> "1", expireAt |-> now + TicksPerSecond]]]

logout(rc, cookie) == logout_Depends(get_current_user(rc, cookie), cookie)

(***************************************************************************)
(* app/internal/admin.py                                                   *)
(***************************************************************************)
\* the 403 of check_admin_role, or "" when the caller is an enabled administrator
check_admin_role(current_user) ==
    LET user == get_user_by_id(current_user.user_id) IN
    IF user = None \/ The(user).disabled THEN "User account is disabled"
    ELSE IF ~user_has_role(current_user.user_id, "admin") THEN "Admin role required"
    ELSE ""

\* the response of POST /admin/cache/flush
flush_cache_Depends(current_user) ==
    IF current_user.status # 200
    THEN [status |-> current_user.status, detail |-> current_user.detail,
          wwwauth |-> current_user.wwwauth, deleted |-> {}, rc |-> current_user.rc]
    ELSE IF check_admin_role(The(current_user.data)) # ""
    THEN [status |-> 403, detail |-> check_admin_role(The(current_user.data)),
          wwwauth |-> FALSE, deleted |-> {}, rc |-> current_user.rc]
    ELSE LET g == get_client(current_user.rc) IN
         IF g.exc # "none" \/ ~storeUp
         THEN [status |-> 503, detail |-> "Could not flush cache", wwwauth |-> FALSE,
               deleted |-> {}, rc |-> g.rc]
         ELSE LET keys == {k \in DOMAIN Live(g.rc.store) : MatchesRevokedPattern(k)} IN
              [status |-> 200, detail |-> "Cache flushed successfully", wwwauth |-> FALSE,
               deleted |-> keys,
               rc |-> [g.rc EXCEPT !.store =
                          [k \in DOMAIN Live(g.rc.store) \ keys |-> g.rc.store[k]]]]

flush_cache(rc, cookie) == flush_cache_Depends(get_current_user(rc, cookie))

(***************************************************************************)
(* app/routers/users.py                                                    *)
(***************************************************************************)
\* the response of POST /users/register
register_user(user_data) ==
    IF get_user_by_email(user_data.email) # None
    THEN [status |-> 400, detail |-> "Email already registered", created |-> None]
    ELSE IF get_user_by_username(user_data.username) # None
    THEN [status |-> 400, detail |-> "Username already taken", created |-> None]
    ELSE [status |-> 201, detail |-> "",
          created |-> Some([id |-> nextId, username |-> user_data.username,
                            email |-> user_data.email,
                            hashed_password |-> hash_password(user_data.password),
                            disabled |-> FALSE])]

(***************************************************************************)
(* Inputs                                                                  *)
(***************************************************************************)
Pw(n, c) == [i \in 1..n |-> c]
PasswordLength == 8
Passwords == {Pw(PasswordLength, 1), Pw(PasswordLength, 2)}
\* the bodies POST /users/register is called with; Bob takes Alice's email
\* address as his username
Alice == [username |-> "alice", email |-> "a@x.io", password |-> Pw(PasswordLength, 1)]
Bob == [username |-> "a@x.io", email |-> "b@x.io", password |-> Pw(PasswordLength, 2)]
Dup == [username |-> "alice", email |-> "b@x.io", password |-> Pw(PasswordLength, 2)]
Registrations == {Alice, Bob, Dup}

\* passwords around the bcrypt limit: BCRYPT_MAX_PASSWORD_LENGTH - d times "a",
\* then up to MaxTail of the characters a, b (one byte each), e-acute and
\* capital omega (two bytes each, with different lead bytes)
ShortBy == 1
MaxTail == 1
PasswordChars == {97, 98, 233, 937}
LongPasswords ==
    { Pw(BCRYPT_MAX_PASSWORD_LENGTH - d, 97) \o tail :
        d \in 0..ShortBy, tail \in UNION {[1..k -> PasswordChars] : k \in 0..MaxTail} }

\* a stored string that is the hash of no scheme, such as "not-a-hash"
MalformedHash == [scheme |-> "unidentified", digest |-> <<>>]
StoredHashes == {MalformedHash, hash_password(Pw(PasswordLength, 2))}
Identifiers == {"alice", "a@x.io", "b@x.io", "nobody"}

MalformedToken ==
    [ sig |-> "malformed", jti |-> "", type |-> "", sub |-> "", user_id |-> 0,
      has_remember_me |-> FALSE, remember_me |-> FALSE, exp |-> 0 ]

\* what a client can send: a minted token, a minted token whose signature
\* no longer matches, or a string that is no JWT
Presentable ==
    issued \cup {[t EXCEPT !.sig = "bad"] : t \in {x \in issued : x.type = "access"}}
           \cup {MalformedToken}

Cookies == {None} \cup {Some(t) : t \in Presentable}

CacheKeys == {<<"", "bird:1">>} \cup {RevokedKey(t.jti) : t \in issued}

RC == [instance |-> instance, isCluster |-> isCluster, store |-> store]

\* every assignment to cls._instance stores an object just constructed
SetRC(rc) ==
    /\ instance' = rc.instance
    /\ isCluster' = rc.isCluster
    /\ store' = rc.store
    /\ created' = IF rc.instance # instance THEN created + 1 ELSE created

Mint(minted) ==
    /\ issued' = issued \cup {minted[i] : i \in 1..Len(minted)}
    /\ nextJti' = nextJti + Len(minted)

MayMint(minted) == Len(minted) = 0 \/ nextJti + 1 <= 2 * MaxLogins

(***************************************************************************)
(* Actions: one per request or call                                        *)
(***************************************************************************)
\* the threads that may be inside get_client at the same time: the event loop
\* and the worker threads that run the sync handlers
Threads == 1..MaxThreads

Init ==
    /\ now = 0
    /\ users = {}
    /\ nextId = 1
    /\ issued = {}
    /\ nextJti = 1
    /\ instance = None
    /\ isCluster = FALSE
    /\ store = <<>>
    /\ storeUp = TRUE
    /\ logoutSeen = {}
    /\ resp = [op |-> "start"]
    /\ pc = [t \in Threads |-> "idle"]
    /\ created = 0

Register(user_data) ==
    \E r \in {register_user(user_data)} :
    /\ nextId <= MaxUsers
    /\ users' = users \cup r.created
    /\ nextId' = IF r.created = None THEN nextId ELSE nextId + 1
    /\ resp' = [op |-> "register", status |-> r.status, detail |-> r.detail]
    /\ UNCHANGED <<now, issued, nextJti, instance, isCluster, store, storeUp, logoutSeen, pc, created>>

\* UserCRUD.disable_user / enable_user
SetDisabled(user_id, flag) ==
    /\ \E u \in users : u.id = user_id /\ u.disabled # flag
    /\ users' = {IF u.id = user_id THEN [u EXCEPT !.disabled = flag] ELSE u : u \in users}
    /\ resp' = [op |-> "set_disabled"]
    /\ UNCHANGED <<now, nextId, issued, nextJti, instance, isCluster, store, storeUp, logoutSeen, pc, created>>

Login(username_or_email, password, remember_me) ==
    \E credentials \in {[username_or_email |-> username_or_email, password |-> password,
                          remember_me |-> remember_me]} :
    \E r \in {login(credentials, nextJti)} :
    /\ MayMint(r.minted)
    /\ Mint(r.minted)
    /\ resp' = [op |-> "login", req |-> credentials, status |-> r.status, detail |-> r.detail,
                wwwauth |-> r.wwwauth, cookies |-> r.cookies, minted |-> r.minted,
                body |-> r.body]
    /\ UNCHANGED <<now, users, nextId, instance, isCluster, store, storeUp, logoutSeen, pc, created>>

\* POST /auth/login in a run with up to MaxSessions successful logins
LoginSession(username_or_email, password, remember_me) ==
    \E credentials \in {[username_or_email |-> username_or_email, password |-> password,
                          remember_me |-> remember_me]} :
    \E r \in {login(credentials, nextJti)} :
    /\ Len(r.minted) = 0 \/ nextJti + 1 <= 2 * MaxSessions
    /\ Mint(r.minted)
    /\ resp' = [op |-> "login", req |-> credentials, status |-> r.status, detail |-> r.detail,
                wwwauth |-> r.wwwauth, cookies |-> r.cookies, minted |-> r.minted,
                body |-> r.body]
    /\ UNCHANGED <<now, users, nextId, instance, isCluster, store, storeUp, logoutSeen, pc, created>>

Refresh(cookie) ==
    \E r \in {refresh_token(RC, cookie, nextJti)} :
    /\ MayMint(r.minted)
    /\ Mint(r.minted)
    /\ SetRC(r.rc)
    /\ resp' = [op |-> "refresh", req |-> cookie, status |-> r.status, detail |-> r.detail,
                wwwauth |-> r.wwwauth, cookies |-> r.cookies, minted |-> r.minted,
                body |-> r.body]
    /\ UNCHANGED <<now, users, nextId, storeUp, logoutSeen, pc>>

\* GET /auth/me: get_current_user and nothing else
Me(cookie) ==
    \E r \in {get_current_user(RC, cookie)} :
    /\ SetRC(r.rc)
    /\ resp' = [op |-> "me", req |-> cookie, status |-> r.status, detail |-> r.detail,
                wwwauth |-> r.wwwauth, data |-> r.data]
    /\ UNCHANGED <<now, users, nextId, issued, nextJti, storeUp, logoutSeen, pc>>

Logout(cookie) ==
    \E r \in {logout(RC, cookie)} :
    /\ SetRC(r.rc)
    /\ logoutSeen' = logoutSeen \cup
          {t.jti : t \in {x \in cookie \cap issued :
                            x.type = "access" /\ storeUp /\ now < x.exp * TicksPerSecond}}
    /\ resp' = [op |-> "logout", req |-> cookie, status |-> r.status, detail |-> r.detail,
                wwwauth |-> r.wwwauth, cookies |-> r.cookies, revoked |-> r.revoked,
                ttl |-> r.ttl]
    /\ UNCHANGED <<now, users, nextId, issued, nextJti, storeUp, pc>>

FlushCache(cookie) ==
    \E r \in {flush_cache(RC, cookie)} :
    /\ SetRC(r.rc)
    /\ resp' = [op |-> "flush_cache", req |-> cookie, status |-> r.status, detail |-> r.detail,
                wwwauth |-> r.wwwauth, deleted |-> r.deleted]
    /\ UNCHANGED <<now, users, nextId, issued, nextJti, storeUp, logoutSeen, pc>>

\* security.revoke_token called on its own
RevokeToken(token) ==
    \E r \in {revoke_token(RC, token)} :
    /\ SetRC(r.rc)
    /\ resp' = [op |-> "revoke_token", req |-> Some(token), ret |-> r.ret, ttl |-> r.ttl]
    /\ UNCHANGED <<now, users, nextId, issued, nextJti, storeUp, logoutSeen, pc>>

\* the jti and expiration_seconds RedisClient.revoke_token is called with
Jtis == {t.jti : t \in issued} \cup {"unknown"}

RevokeTtls == {-1, 0, 1}

\* RedisClient.revoke_token called on its own
RedisRevoke(jti, expiration_seconds) ==
    \E r \in {RedisClient_revoke_token(RC, jti, expiration_seconds)} :
    /\ SetRC(r.rc)
    /\ resp' = [op |-> "redis_revoke", jti |-> jti, ttl |-> expiration_seconds, ret |-> r.ret]
    /\ UNCHANGED <<now, users, nextId, issued, nextJti, storeUp, logoutSeen, pc>>

CacheSet(key) ==
    \E r \in {cache_set(RC, key, "v", 3600)} :
    /\ SetRC(r.rc)
    /\ resp' = [op |-> "cache_set", req |-> key, ret |-> r.ret]
    /\ UNCHANGED <<now, users, nextId, issued, nextJti, storeUp, logoutSeen, pc>>

CacheDelete(key) ==
    \E r \in {cache_delete(RC, key)} :
    /\ SetRC(r.rc)
    /\ resp' = [op |-> "cache_delete", req |-> key, ret |-> r.ret]
    /\ UNCHANGED <<now, users, nextId, issued, nextJti, storeUp, logoutSeen, pc>>

\* GET /health/redis
HealthCheck ==
    \E r \in {health_check(RC)} :
    /\ SetRC(r.rc)
    /\ resp' = [op |-> "health", ret |-> r.ret]
    /\ UNCHANGED <<now, users, nextId, issued, nextJti, storeUp, logoutSeen, pc>>

\* the instants the clock is observed at: the first few ticks; for every
\* access token the tick before its exp, its exp and the second after it;
\* for every refresh token the second after its exp
Instants ==
    {now + 1 : k \in {x \in {0} : now < EarlyTicks}}
      \cup {t.exp * TicksPerSecond + d :
               t \in {x \in issued : x.type = "access"}, d \in {-1, 0, TicksPerSecond}}
      \cup {(t.exp + 1) * TicksPerSecond : t \in {x \in issued : x.type = "refresh"}}

Tick(t) ==
    /\ t > now
    /\ now' = t
    /\ store' = [k \in {x \in DOMAIN store : store[x].expireAt > t} |-> store[k]]
    /\ resp' = [op |-> "tick"]
    /\ UNCHANGED <<users, nextId, issued, nextJti, instance, isCluster, storeUp, logoutSeen, pc, created>>

\* a thread calls get_client and executes line 27, `if cls._instance is None`
GetClientEnter(t) ==
    /\ pc[t] = "idle"
    /\ pc' = [pc EXCEPT ![t] = IF instance = None THEN "try" ELSE "idle"]
    /\ resp' = [op |-> "get_client_enter", thread |-> t, found |-> instance]
    /\ UNCHANGED <<now, users, nextId, issued, nextJti, instance, isCluster, store, storeUp,
                   logoutSeen, created>>

\* a thread that found _instance None executes the try block, lines 28-63,
\* and leaves get_client by return or by the exception
GetClientTry(t) ==
    \E r \in {get_client_try(RC)} :
    /\ pc[t] = "try"
    /\ pc' = [pc EXCEPT ![t] = "idle"]
    /\ instance' = r.rc.instance
    /\ isCluster' = r.rc.isCluster
    /\ created' = IF r.exc = "none" THEN created + 1 ELSE created
    /\ resp' = [op |-> "get_client_try", thread |-> t, exc |-> r.exc]
    /\ UNCHANGED <<now, users, nextId, issued, nextJti, store, storeUp, logoutSeen>>

\* the Redis server goes away or comes back
StoreOutage(up) ==
    /\ storeUp # up
    /\ storeUp' = up
    /\ resp' = [op |-> "outage"]
    /\ UNCHANGED <<now, users, nextId, issued, nextJti, instance, isCluster, store, logoutSeen, pc, created>>

\* the expires_delta arguments of create_*_token, in ticks: absent, zero,
\* less than a second, a second
ExpiresDeltas == {None, Some(0), Some(1), Some(TicksPerSecond)}

ClaimsData == [sub |-> "a@x.io", user_id |-> 1]

\* security.create_access_token called on its own
CreateAccessToken(expires_delta) ==
    \E token \in {create_access_token(ClaimsData, expires_delta, nextJti)} :
    /\ nextJti <= MaxLogins + 1
    /\ issued' = issued \cup {token}
    /\ nextJti' = nextJti + 1
    /\ resp' = [op |-> "create_access_token", expires_delta |-> expires_delta,
                token |-> token]
    /\ UNCHANGED <<now, users, nextId, instance, isCluster, store, storeUp, logoutSeen, pc, created>>

\* security.create_refresh_token called on its own
CreateRefreshToken(expires_delta, remember_me) ==
    \E token \in {create_refresh_token(ClaimsData, expires_delta, remember_me, nextJti)} :
    /\ nextJti <= MaxLogins + 1
    /\ issued' = issued \cup {token}
    /\ nextJti' = nextJti + 1
    /\ resp' = [op |-> "create_refresh_token", expires_delta |-> expires_delta,
                remember_me |-> remember_me, token |-> token]
    /\ UNCHANGED <<now, users, nextId, instance, isCluster, store, storeUp, logoutSeen, pc, created>>

\* security.decode_token called on its own
DecodeToken(token) ==
    \E r \in {decode_token(RC, token)} :
    /\ SetRC(r.rc)
    /\ resp' = [op |-> "decode_token", req |-> Some(token), ret |-> r.ret]
    /\ UNCHANGED <<now, users, nextId, issued, nextJti, storeUp, logoutSeen, pc>>

\* the state before a password is hashed and another one is verified against
\* the hash
InitPassword ==
    /\ now = 0
    /\ users = {}
    /\ nextId = 1
    /\ issued = {}
    /\ nextJti = 1
    /\ instance = None
    /\ isCluster = FALSE
    /\ store = <<>>
    /\ storeUp = TRUE
    /\ logoutSeen = {}
    /\ resp \in { [op |-> "input", password |-> p, plain_password |-> q] :
                     p \in LongPasswords, q \in LongPasswords }
    /\ pc = [t \in Threads |-> "idle"]
    /\ created = 0

\* security.hash_password called on its own
HashPassword ==
    /\ resp.op = "input"
    /\ resp' = [op |-> "hash_password", password |-> resp.password,
                plain_password |-> resp.plain_password,
                hashed_password |-> hash_password(resp.password)]
    /\ UNCHANGED <<now, users, nextId, issued, nextJti, instance, isCluster, store,
                   storeUp, logoutSeen, pc, created>>

\* security.verify_password called with the hash hash_password returned
VerifyPassword ==
    /\ resp.op = "hash_password"
    /\ \E r \in {verify_password(resp.plain_password, resp.hashed_password)} :
          resp' = [op |-> "verify_password", password |-> resp.password,
                   plain_password |-> resp.plain_password,
                   hashed_password |-> resp.hashed_password,
                   exc |-> r.exc, ret |-> r.ret]
    /\ UNCHANGED <<now, users, nextId, issued, nextJti, instance, isCluster, store,
                   storeUp, logoutSeen, pc, created>>

\* UserCRUD.update_user(db, user_id, hashed_password=...): the value is stored
\* as it is given
UpdateUser(user_id, hashed_password) ==
    /\ \E u \in users : u.id = user_id /\ u.hashed_password # hashed_password
    /\ users' = { IF u.id = user_id THEN [u EXCEPT !.hashed_password = hashed_password]
                  ELSE u : u \in users }
    /\ resp' = [op |-> "update_user"]
    /\ UNCHANGED <<now, nextId, issued, nextJti, instance, isCluster, store, storeUp,
                   logoutSeen, pc, created>>

\* the whole service, used by one registered client
Next ==
    \/ Register(Alice)
    \/ \E m \in BOOLEAN : Login(Alice.email, Alice.password, m)
    \/ \E c \in Cookies : Refresh(c)
    \/ \E c \in Cookies : Me(c)
    \/ \E c \in Cookies : Logout(c)
    \/ \E c \in Cookies : FlushCache(c)
    \/ \E t \in Presentable : RevokeToken(t)
    \/ \E j \in Jtis, e \in RevokeTtls : RedisRevoke(j, e)
    \/ \E k \in CacheKeys : CacheSet(k)
    \/ \E k \in CacheKeys : CacheDelete(k)
    \/ HealthCheck
    \/ \E t \in Instants : Tick(t)
    \/ \E b \in BOOLEAN : StoreOutage(b)

Spec == Init /\ [][Next]_vars

\* registration, administration of the disabled flag and login, with every
\* identifier and password
NextLogin ==
    \/ \E d \in Registrations : Register(d)
    \/ \E i \in 1..MaxUsers, f \in BOOLEAN : SetDisabled(i, f)
    \/ \E i \in Identifiers, p \in Passwords, m \in BOOLEAN : Login(i, p, m)
    \/ \E t \in Instants : Tick(t)

SpecLogin == Init /\ [][NextLogin]_vars

\* the password hasher called directly with passwords around the bcrypt limit
NextPassword ==
    \/ HashPassword
    \/ VerifyPassword

SpecPassword == InitPassword /\ [][NextPassword]_vars

\* login for rows whose hashed_password was written by update_user
NextStoredHash ==
    \/ Register(Alice)
    \/ \E i \in 1..MaxUsers, h \in StoredHashes : UpdateUser(i, h)
    \/ \E i \in 1..MaxUsers, f \in BOOLEAN : SetDisabled(i, f)
    \/ \E i \in {"alice", "a@x.io"}, p \in Passwords, m \in BOOLEAN : Login(i, p, m)
    \/ \E t \in Instants : Tick(t)

SpecStoredHash == Init /\ [][NextStoredHash]_vars

\* several sessions of two users: logins and logouts
NextSessions ==
    \/ \E d \in {Alice, Bob} : Register(d)
    \/ \E d \in {Alice, Bob} : LoginSession(d.email, d.password, FALSE)
    \/ \E c \in Cookies : Logout(c)
    \/ \E t \in {x \in Instants : x <= EarlyTicks} : Tick(t)

SpecSessions == Init /\ [][NextSessions]_vars

\* an account that is disabled or enabled while its tokens are in circulation
NextDisabled ==
    \/ Register(Alice)
    \/ \E m \in BOOLEAN : Login(Alice.email, Alice.password, m)
    \/ \E i \in 1..MaxUsers, f \in BOOLEAN : SetDisabled(i, f)
    \/ \E c \in Cookies : Refresh(c)
    \/ \E c \in Cookies : Me(c)
    \/ \E t \in Instants : Tick(t)

SpecDisabled == Init /\ [][NextDisabled]_vars

\* the token codec called directly, with every expires_delta
NextCodec ==
    \/ \E e \in ExpiresDeltas : CreateAccessToken(e)
    \/ \E e \in ExpiresDeltas, m \in BOOLEAN : CreateRefreshToken(e, m)
    \/ \E t \in Presentable : DecodeToken(t)
    \/ \E t \in Presentable : RevokeToken(t)
    \/ \E t \in Instants : Tick(t)

SpecCodec == Init /\ [][NextCodec]_vars

\* threads inside get_client, interleaved line by line with each other and
\* with the handlers of one client
NextClient ==
    \/ \E t \in Threads : GetClientEnter(t)
    \/ \E t \in Threads : GetClientTry(t)
    \/ Register(Alice)
    \/ \E m \in BOOLEAN : Login(Alice.email, Alice.password, m)
    \/ \E c \in Cookies : Me(c)
    \/ HealthCheck
    \/ \E t \in Instants : Tick(t)
    \/ \E b \in BOOLEAN : StoreOutage(b)

SpecClient == Init /\ [][NextClient]_vars

(***************************************************************************)
(* Properties                                                              *)
(***************************************************************************)
\* the request just handled carried a token minted by this service
SentIssued == resp.req # None /\ The(resp.req) \in issued

BeforeExp(t) == now < t.exp * TicksPerSecond

C2_FailClosed ==
    ~storeUp =>
       /\ \A t \in issued :
             /\ is_token_revoked(RC, t.jti).ret
             /\ BeforeExp(t) => decode_token(RC, t).ret = None
       /\ ( /\ resp.op = "me"
            /\ SentIssued
            /\ The(resp.req).type = "access"
            /\ BeforeExp(The(resp.req))
            /\ RevokedKey(The(resp.req).jti) \notin DOMAIN store )
          => resp.status = 401 /\ resp.data = None

C2_Witness ==
    /\ ~storeUp
    /\ resp.op = "me"
    /\ SentIssued
    /\ The(resp.req).type = "access"
    /\ BeforeExp(The(resp.req))
    /\ The(resp.req).jti \notin logoutSeen
    /\ RevokedKey(The(resp.req).jti) \notin DOMAIN store
    /\ resp.status = 401

\* C3: for every minted access token that has no revocation entry, while the
\* Redis server is reachable, get_current_user accepts the token at every
\* instant before exp and rejects it at every instant at or after exp.
C3_ValidExactlyUntilExp ==
    ( /\ resp.op = "me"
      /\ SentIssued
      /\ The(resp.req).type = "access"
      /\ storeUp
      /\ RevokedKey(The(resp.req).jti) \notin DOMAIN store )
    => IF BeforeExp(The(resp.req)) THEN resp.status = 200 ELSE resp.status = 401

\* C4: get_current_user rejects every signed token whose type is not
\* "access", POST /auth/refresh rejects every signed token whose type is not
\* "refresh", and a rejected request creates no token and sets no cookie.
C4_TypesNotInterchangeable ==
    /\ ( resp.op = "me" /\ SentIssued /\ The(resp.req).type # "access" )
       => resp.status = 401 /\ resp.data = None
    /\ ( resp.op = "refresh" /\ SentIssued /\ The(resp.req).type # "refresh" )
       => resp.status = 401
    /\ ( resp.op = "refresh" /\ resp.status = 401 )
       => resp.minted = <<>> /\ resp.cookies = {}

C4_Witness ==
    /\ resp.op = "refresh"
    /\ SentIssued
    /\ The(resp.req).type = "access"
    /\ BeforeExp(The(resp.req))
    /\ storeUp
    /\ resp.status = 401
    /\ resp.minted = <<>>

\* C5: a token revoked at logout keeps its revocation entry, and so stays
\* rejected, until its exp, whatever requests follow.
C5_RevokedUntilExp ==
    \A t \in issued :
        ( t.jti \in logoutSeen /\ BeforeExp(t) )
        => RevokedKey(t.jti) \in DOMAIN store

\* C6: the expiration_seconds revoke_token hands to RedisClient.revoke_token
\* is positive and at most the time left until the token's exp, and no
\* revocation entry is kept beyond the exp of the token it names.
C6_TtlWithinRemainingValidity ==
    /\ ( resp.op \in {"revoke_token", "logout"} /\ resp.ttl # None )
       => /\ The(resp.ttl) > 0
          /\ now + The(resp.ttl) * TicksPerSecond <= The(resp.req).exp * TicksPerSecond
    /\ \A t \in issued :
          RevokedKey(t.jti) \in DOMAIN store
          => store[RevokedKey(t.jti)].expireAt <= t.exp * TicksPerSecond

C6_Witness ==
    /\ resp.op = "revoke_token"
    /\ SentIssued
    /\ resp.ttl # None
    /\ now % TicksPerSecond # 0
    /\ The(resp.ttl) * TicksPerSecond < The(resp.req).exp * TicksPerSecond - now

\* C7: POST /auth/logout carrying a signed, unexpired access token answers
\* 200 and deletes both cookies even while the Redis server is unreachable.
C7_LogoutBestEffort ==
    ( /\ resp.op = "logout"
      /\ SentIssued
      /\ The(resp.req).type = "access"
      /\ BeforeExp(The(resp.req))
      /\ ~storeUp )
    => /\ resp.status = 200
       /\ resp.cookies = {DeleteCookie("access_token"), DeleteCookie("refresh_token")}

\* the rows whose email or username is the identifier
Matching(identifier) == {u \in users : u.email = identifier \/ u.username = identifier}

\* the password a row was registered with (at most BCRYPT_MAX_PASSWORD_LENGTH bytes)
RegisteredPassword(u) == u.hashed_password.digest

\* C8: login answers the same 401 "Incorrect email/username or password"
\* whether no row matches the identifier or the password is not the one of
\* any matching row, and then creates no token and sets no cookie.
C8_InvalidCredentials ==
    ( /\ resp.op = "login"
      /\ \A u \in Matching(resp.req.username_or_email) :
             RegisteredPassword(u) # resp.req.password )
    => /\ resp.status = 401
       /\ resp.detail = "Incorrect email/username or password"
       /\ resp.wwwauth = FALSE
       /\ resp.minted = <<>>
       /\ resp.cookies = {}
       /\ resp.body = None

C8_Witness ==
    /\ resp.op = "login"
    /\ \E u \in users :
          /\ u.username = resp.req.username_or_email
          /\ Matching(resp.req.username_or_email) = {u}
          /\ RegisteredPassword(u) # resp.req.password
    /\ resp.status = 401
    /\ resp.minted = <<>>

\* C9: login with the password of a disabled account answers 403 "User is
\* disabled" and creates no token; every token login creates names an
\* account whose disabled flag is false at that moment.
C9_AccountDisabled ==
    /\ ( /\ resp.op = "login"
         /\ \E u \in users :
               /\ Matching(resp.req.username_or_email) = {u}
               /\ u.disabled
               /\ RegisteredPassword(u) = resp.req.password )
       => /\ resp.status = 403
          /\ resp.detail = "User is disabled"
          /\ resp.minted = <<>>
          /\ resp.cookies = {}
    /\ ( resp.op = "login" /\ resp.minted # <<>> )
       => \E u \in users :
             /\ ~u.disabled
             /\ \A i \in 1..Len(resp.minted) :
                   resp.minted[i].user_id = u.id /\ resp.minted[i].sub = u.email

C9_Witness ==
    /\ resp.op = "login"
    /\ \E u \in users :
          /\ Matching(resp.req.username_or_email) = {u}
          /\ u.disabled
          /\ RegisteredPassword(u) = resp.req.password
    /\ resp.status = 403
    /\ resp.minted = <<>>

\* C10: when the identifier is the email of row a and the username of another
\* row b, login decides on a alone; the username is consulted only when no
\* row has the identifier as email.
C10_EmailFirst ==
    /\ ( resp.op = "login" )
       => \A a \in users, b \in users :
             ( a # b /\ a.email = resp.req.username_or_email
                     /\ b.username = resp.req.username_or_email )
             => /\ resp.status = 200
                   <=> (RegisteredPassword(a) = resp.req.password /\ ~a.disabled)
                /\ resp.status = 200 => The(resp.body).user_id = a.id
                /\ RegisteredPassword(a) # resp.req.password => resp.status = 401
    /\ ( resp.op = "login" )
       => \A b \in users :
             ( /\ \A u \in users : u.email # resp.req.username_or_email
               /\ b.username = resp.req.username_or_email
               /\ RegisteredPassword(b) = resp.req.password
               /\ ~b.disabled )
             => resp.status = 200 /\ The(resp.body).user_id = b.id

C10_Witness ==
    /\ resp.op = "login"
    /\ \E a \in users, b \in users :
          /\ a # b
          /\ a.email = resp.req.username_or_email
          /\ b.username = resp.req.username_or_email
          /\ RegisteredPassword(b) = resp.req.password
          /\ RegisteredPassword(a) # resp.req.password
          /\ ~b.disabled
    /\ resp.status = 401

\* the request just handled was POST /auth/refresh carrying a refresh token
\* minted by this service, before its exp, with no revocation entry, while the
\* Redis server answers
RefreshedWithValidToken ==
    /\ resp.op = "refresh"
    /\ SentIssued
    /\ The(resp.req).type = "refresh"
    /\ BeforeExp(The(resp.req))
    /\ storeUp
    /\ RevokedKey(The(resp.req).jti) \notin DOMAIN store

\* C11: POST /auth/refresh with the refresh token login issued succeeds and the
\* refresh token it mints carries the remember_me of the token it consumed.
C11_RememberMeSticky ==
    RefreshedWithValidToken
    => /\ resp.status = 200
       /\ Len(resp.minted) = 2
       /\ resp.minted[2].type = "refresh"
       /\ resp.minted[2].remember_me = The(resp.req).remember_me

\* C13: POST /auth/refresh with a refresh token whose remember_me is true mints
\* a refresh token whose exp is the issuance second plus the remember-me tier;
\* with remember_me false, plus the default tier.
C13_RefreshKeepsTier ==
    RefreshedWithValidToken
    => /\ resp.status = 200
       /\ Len(resp.minted) = 2
       /\ resp.minted[2].exp =
             NowSec + 60 * (IF The(resp.req).remember_me
                            THEN REMEMBER_ME_REFRESH_TOKEN_EXPIRES_MINUTES
                            ELSE REFRESH_TOKEN_EXPIRES_MINUTES)

\* C14: POST /auth/refresh succeeds with a valid refresh token and revokes
\* nothing: the token it consumed has no revocation entry afterwards and
\* decode_token still accepts it.
C14_RefreshDoesNotRevoke ==
    RefreshedWithValidToken
    => /\ resp.status = 200
       /\ RevokedKey(The(resp.req).jti) \notin DOMAIN store
       /\ decode_token(RC, The(resp.req)).ret = resp.req

\* C12: create_refresh_token sets exp to now + expires_delta whenever an
\* expires_delta is given, whatever remember_me is; without one, to now + the
\* remember-me tier when remember_me is true and to now + the default tier
\* otherwise.
C12_TtlPrecedence ==
    resp.op = "create_refresh_token"
    => resp.token.exp =
          IF resp.expires_delta # None
          THEN ExpAfter(The(resp.expires_delta))
          ELSE IF resp.remember_me
          THEN ExpAfter(REMEMBER_ME_REFRESH_TOKEN_EXPIRES_MINUTES * 60 * TicksPerSecond)
          ELSE ExpAfter(REFRESH_TOKEN_EXPIRES_MINUTES * 60 * TicksPerSecond)

Defective(t) ==
    \/ t.sig # "ok"
    \/ t.type # "access"
    \/ ~BeforeExp(t)
    \/ RevokedKey(t.jti) \in DOMAIN store
    \/ t.jti \in logoutSeen

C17_RevokeIdempotent ==
    ( resp.op = "redis_revoke" /\ resp.ttl > 0 /\ storeUp )
    => /\ resp.ret = TRUE
       /\ RevokedKey(resp.jti) \in DOMAIN store

\* C18: RedisClient.revoke_token with expiration_seconds <= 0 writes nothing
\* to the store and changes the answer of is_token_revoked for no jti;
\* security.revoke_token on a token at or past its exp returns False without
\* calling RedisClient.revoke_token and writes nothing.
C18_ExpiredRevokeIsNoOp ==
    /\ [][ ( resp'.op = "redis_revoke" /\ resp'.ttl <= 0 )
           => /\ store' = store
              /\ \A j \in Jtis :
                    (is_token_revoked(RC, j).ret)' = is_token_revoked(RC, j).ret ]_vars
    /\ [][ ( /\ resp'.op = "revoke_token"
             /\ The(resp'.req) \in issued
             /\ ~BeforeExp(The(resp'.req)) )
           => /\ resp'.ret = FALSE
              /\ resp'.ttl = None
              /\ store' = store ]_vars

C18_Witness ==
    /\ resp.op = "revoke_token"
    /\ SentIssued
    /\ ~BeforeExp(The(resp.req))
    /\ storeUp
    /\ resp.ret = FALSE
    /\ resp.ttl = None
    /\ RevokedKey(The(resp.req).jti) \notin DOMAIN store

\* the revocation entries of a store
RevokedEntries(st) == {k \in DOMAIN st : MatchesRevokedPattern(k)}

C21_RoundTrip ==
    ( /\ resp.op = "decode_token"
      /\ SentIssued
      /\ The(resp.req).type = "access"
      /\ BeforeExp(The(resp.req))
      /\ storeUp
      /\ RevokedKey(The(resp.req).jti) \notin DOMAIN store )
    => /\ resp.ret # None
       /\ The(resp.ret).user_id = ClaimsData.user_id
       /\ The(resp.ret).sub = ClaimsData.sub
       /\ The(resp.ret).type = "access"

\* C22: verify_password(q, hash_password(p)) returns true when the first
\* BCRYPT_MAX_PASSWORD_LENGTH bytes of p and q are equal (so for q = p), and
\* false when they differ.
C22_TruncationSymmetry ==
    resp.op = "verify_password"
    => /\ resp.exc = "none"
       /\ resp.ret <=> ( SubSeq(encode_utf8(resp.plain_password), 1,
                                Min(Len(encode_utf8(resp.plain_password)),
                                    BCRYPT_MAX_PASSWORD_LENGTH))
                         = SubSeq(encode_utf8(resp.password), 1,
                                  Min(Len(encode_utf8(resp.password)),
                                      BCRYPT_MAX_PASSWORD_LENGTH)) )

\* the row login looks up has a hashed_password that is no hash
LoginFindsMalformedHash ==
    /\ resp.op = "login"
    /\ login_lookup(resp.req.username_or_email) # None
    /\ The(login_lookup(resp.req.username_or_email)).hashed_password.scheme # "bcrypt"

\* C23: login for a row whose stored hash is malformed answers the 401 of
\* invalid credentials and creates no token; it never ends in an unhandled
\* error.
C23_MalformedHashIsMismatch ==
    LoginFindsMalformedHash
    => /\ resp.status = 401
       /\ resp.detail = "Incorrect email/username or password"
       /\ resp.minted = <<>>
       /\ resp.cookies = {}

\* C24: security.revoke_token on a token whose signature does not verify
\* returns False, does not call RedisClient.revoke_token and leaves the store
\* as it was; jwt.decode with verify_exp off returns the claims of a validly
\* signed token that is past its exp.
C24_RevokeValidatesSignature ==
    /\ [][ ( resp'.op = "revoke_token" /\ The(resp'.req).sig # "ok" )
           => /\ resp'.ret = FALSE
              /\ resp'.ttl = None
              /\ store' = store ]_vars
    /\ [](\A t \in issued : ~BeforeExp(t) => jwt_decode(t, FALSE) = Some(t))

C24_Witness ==
    /\ resp.op = "revoke_token"
    /\ The(resp.req).sig = "bad"
    /\ [The(resp.req) EXCEPT !.sig = "ok"] \in issued
    /\ BeforeExp(The(resp.req))
    /\ storeUp
    /\ resp.ret = FALSE
    /\ \E t \in issued : ~BeforeExp(t)

\* C25: the refresh token a successful login creates expires 7 days after the
\* login without remember_me and 30 days after it with remember_me, and the
\* max-age of the refresh cookie equals that time to live.
C25_RefreshTtlAndCookie ==
    ( resp.op = "login" /\ resp.status = 200 )
    => LET ttl == resp.minted[2].exp - NowSec
           cookie == CHOOSE c \in resp.cookies : c.key = "refresh_token" IN
       /\ cookie.value = Some(resp.minted[2])
       /\ ttl = IF resp.req.remember_me THEN 30 * 24 * 60 * 60 ELSE 7 * 24 * 60 * 60
       /\ cookie.max_age = ttl

\* C26: POST /auth/logout leaves every issued token with another jti than the
\* one it was called with as it was: its revocation entry, the answer of
\* is_token_revoked, and the status get_current_user and refresh_token answer it
\* with.
C26_LogoutFrame ==
    [][ resp'.op = "logout"
        => \A u \in issued :
              ( resp'.req = None \/ u.jti # The(resp'.req).jti )
              => /\ (RevokedKey(u.jti) \in DOMAIN store)' = (RevokedKey(u.jti) \in DOMAIN store)
                 /\ (is_token_revoked(RC, u.jti).ret)' = is_token_revoked(RC, u.jti).ret
                 /\ (get_current_user(RC, Some(u)).status)'
                      = get_current_user(RC, Some(u)).status
                 /\ (refresh_token(RC, Some(u), nextJti).status)'
                      = refresh_token(RC, Some(u), nextJti).status ]_vars

\* logout was called with an access token before its exp while another
\* session of the same user, a session of another user and the refresh token
\* of the same session are in circulation
C26_Witness ==
    /\ resp.op = "logout"
    /\ SentIssued
    /\ The(resp.req).type = "access"
    /\ BeforeExp(The(resp.req))
    /\ storeUp
    /\ \E u \in issued : u.type = "refresh" /\ u.user_id = The(resp.req).user_id
    /\ \E u \in issued : u.type = "access" /\ u.user_id # The(resp.req).user_id

\* C27: while the Redis server is reachable, get_client returns a client,
\* is_token_revoked answers False for every jti that was never passed to
\* revoke_token, and get_current_user accepts an access token login has just
\* created.
C27_ClientUsable ==
    storeUp
    => /\ get_client(RC).exc = "none"
       /\ \A j \in Jtis : ~is_token_revoked(RC, j).ret
       /\ ( /\ resp.op = "me"
            /\ SentIssued
            /\ The(resp.req).type = "access"
            /\ BeforeExp(The(resp.req)) )
          => resp.status = 200

\* C28: refresh_token and get_current_user accept a validly signed,
\* unexpired token with no revocation entry whatever the users table says, so
\* refresh_token answers 200 with a new pair of tokens to the refresh token of
\* an account disabled after its login.
C28_DisabledUserRefreshes ==
    ( /\ resp.op = "refresh"
      /\ SentIssued
      /\ The(resp.req).type = "refresh"
      /\ BeforeExp(The(resp.req))
      /\ storeUp
      /\ RevokedKey(The(resp.req).jti) \notin DOMAIN store
      /\ \E u \in users : u.id = The(resp.req).user_id /\ u.disabled )
    => /\ resp.status = 200
       /\ Len(resp.minted) = 2
       /\ get_current_user(RC, Some(resp.minted[1])).status = 200

\* C29: after POST /auth/logout with the access token of a login, the refresh
\* token of that login has no revocation entry, and POST /auth/refresh with
\* it before its exp answers 200 with a new access token that
\* get_current_user accepts.
C29_RefreshSurvivesLogout ==
    ( /\ resp.op = "refresh"
      /\ SentIssued
      /\ The(resp.req).type = "refresh"
      /\ BeforeExp(The(resp.req))
      /\ storeUp
      /\ \E a \in issued : /\ a.type = "access"
                           /\ a.user_id = The(resp.req).user_id
                           /\ a.jti \in logoutSeen )
    => /\ RevokedKey(The(resp.req).jti) \notin DOMAIN store
       /\ resp.status = 200
       /\ Len(resp.minted) = 2
       /\ get_current_user(RC, Some(resp.minted[1])).status = 200

\* the row login checks the credentials against: the one with that email, or
\* else the one with that username
CheckedRow ==
    IF \E u \in users : u.email = resp.req.username_or_email
    THEN {u \in users : u.email = resp.req.username_or_email}
    ELSE {u \in users : u.username = resp.req.username_or_email}

\* C30: login with a wrong password for a disabled account answers the 401
\* of invalid credentials, and login answers 403 "User is disabled" only when
\* the password is the one of the disabled account.
C30_PasswordBeforeDisabled ==
    /\ ( /\ resp.op = "login"
         /\ \E u \in CheckedRow : u.disabled /\ RegisteredPassword(u) # resp.req.password )
       => /\ resp.status = 401
          /\ resp.detail = "Incorrect email/username or password"
    /\ ( resp.op = "login" /\ resp.status = 403 )
       => \E u \in CheckedRow : u.disabled /\ RegisteredPassword(u) = resp.req.password

C30_Witness ==
    /\ resp.op = "login"
    /\ \E u \in CheckedRow : u.disabled /\ RegisteredPassword(u) # resp.req.password
    /\ resp.status = 401
    /\ resp.minted = <<>>

====
